---- MODULE Spec2Model ----
(***************************************************************************)
(* JavaUploaderNotifier (plugins.v2/javauploadernotifier/__init__.py).     *)
(*                                                                         *)
(* The plugin receives NoticeMessage events from the host, filters them    *)
(* (on_notice_message), builds a payload (_process_transfer_push), pushes  *)
(* it with a bounded retry loop (_push_to_api) and keeps two persisted     *)
(* values in the host's key/value store: "stats" and "recent_pushes".      *)
(*                                                                         *)
(* Python values are modelled as strings: NoneV is None, Absent is an      *)
(* attribute the object does not have (reading it raises AttributeError).  *)
(* The host's key/value store (get_data / save_data) is reliable in Spec   *)
(* and may raise in SpecFaulty. SpecLog follows _save_recent_push alone,   *)
(* SpecPayload the building of the payload, SpecTest test_connection and  *)
(* handle_plugin_action, SpecPush one call of _push_to_api under a fair    *)
(* scheduler, SpecConc two handlers running at once.                       *)
(* What the code only writes to the log (test_mode) is left out.           *)
(***************************************************************************)
EXTENDS Integers, Sequences, FiniteSets, TLC

\* ---------------------------------------------------------------- bounds
MaxEvents == 2          \* events the host delivers in one behaviour
MaxRetryTimes == 2      \* largest retry_times a configuration sets
MaxInitCount == 1       \* largest success and failed counters already persisted
MaxInserts == 105       \* records saved in a row when only the log is followed
MaxProbes == 3          \* probes sent by test_connection in one behaviour

\* ------------------------------------------------------ program constants
DefaultRetryTimes == 3  \* _retry_times = 3, config.get("retry_times", 3)
MaxRecent == 100        \* if len(recent_pushes) > 100: keep [-100:]

NoneV == "<None>"
Absent == "absent"

\* The threads the host may run on_notice_message on; `threads` holds the ones
\* its dispatcher uses (one thread: one event at a time).
Procs == {"h1", "h2"}

VARIABLES
    enabled, api_url, api_token, only_success, retry_times,  \* plugin fields
    stats, recent_pushes,                                    \* persisted
    threads,                                                 \* host dispatch
    pc, ev, payload, target_path, retry_count, response,     \* handler locals
    last_error,                                              \* _push_to_api
    stats_local, upd_kind, ret,                              \* _update_stats
    posts, sleeps, updates,                                  \* per-call effects
    stats0, recent0, handled,                                \* history
    test_result, probe, probes,                              \* test_connection
    posted                                                   \* handle_plugin_action

config_vars == <<enabled, api_url, api_token, only_success, retry_times>>
store_vars == <<stats, recent_pushes>>
local_vars == <<pc, ev, payload, target_path, retry_count, response,
                last_error, stats_local, upd_kind, ret>>
effect_vars == <<posts, sleeps, updates>>
hist_vars == <<stats0, recent0, handled>>
test_vars == <<test_result, probe, probes, posted>>
vars == <<config_vars, store_vars, threads, local_vars, effect_vars, hist_vars,
          test_vars>>

\* ------------------------------------------------------------ init_plugin
\* str.rstrip("/") on a string given as a sequence of characters.
RECURSIVE RStrip(_)
RStrip(s) ==
    IF Len(s) > 0 /\ s[Len(s)] = "/" THEN RStrip(SubSeq(s, 1, Len(s) - 1)) ELSE s

\* dict.get(key, default): a key is a set holding its value, empty when missing.
Get(opt, default) == IF opt = {} THEN default ELSE CHOOSE x \in opt : TRUE

\* The configurations the host hands to init_plugin: complete ones, and ones
\* with a single thing missing or switched off.
\* retry_times is negative, zero, or one of the two largest values set; with
\* only_success switched off it is the smallest or the largest of them.
RetryTimes == {-1, 0} \cup (MaxRetryTimes - 1)..MaxRetryTimes
GoodConfigs ==
    [enabled : {{TRUE}},
     api_url : {{<<"u">>}, {<<"u", "/">>}},
     api_token : {{"tok"}},
     only_success : {{}, {TRUE}},
     retry_times : {{n} : n \in RetryTimes}]
    \cup
    [enabled : {{TRUE}},
     api_url : {{<<"u">>}, {<<"u", "/">>}},
     api_token : {{"tok"}},
     only_success : {{FALSE}},
     retry_times : {{-1}, {MaxRetryTimes}}]
DefectConfigs ==
    [enabled : {{}, {FALSE}}, api_url : {{<<"u">>}}, api_token : {{"tok"}},
     only_success : {{FALSE}}, retry_times : {{}}]
    \cup
    [enabled : {{TRUE}}, api_url : {{}, {<<>>}, {<<"/">>}}, api_token : {{"tok"}},
     only_success : {{FALSE}}, retry_times : {{}}]
    \cup
    [enabled : {{TRUE}}, api_url : {{<<"u">>}}, api_token : {{}, {""}},
     only_success : {{FALSE}}, retry_times : {{}}]
Configs == GoodConfigs \cup DefectConfigs

\* ----------------------------------------------------------------- events
\* meta: None, or a MetaBase; its type is an enum member or None.
NoMeta == [obj |-> FALSE, name |-> Absent, year |-> Absent, type |-> Absent]
OkMeta == [obj |-> TRUE, name |-> "Show X", year |-> "int:2024", type |-> "enum"]
TypeNoneMeta == [obj |-> TRUE, name |-> "Show X", year |-> "int:2024", type |-> NoneV]
NoYearMeta == [obj |-> TRUE, name |-> "Show X", year |-> NoneV, type |-> "enum"]

\* mediainfo: None, or an object. attrs: "all" when every attribute the plugin
\* reads exists, "noids" when imdb_id / tvdb_id / douban_id are missing, "none"
\* when title is missing as well. type: None, an enum member, or a plain string.
NoMedia == [obj |-> FALSE, attrs |-> "all", title |-> NoneV, year |-> NoneV, type |-> NoneV]
BadMedia == [obj |-> TRUE, attrs |-> "none", title |-> Absent, year |-> Absent, type |-> Absent]
NoIdsMedia == [obj |-> TRUE, attrs |-> "noids", title |-> "Movie A", year |-> "2023", type |-> "enum"]
OkMedia == [obj |-> TRUE, attrs |-> "all", title |-> "Movie A", year |-> "2023", type |-> "enum"]
StrMedia == [obj |-> TRUE, attrs |-> "all", title |-> "Movie A", year |-> NoneV, type |-> "str"]
NoYearMedia == [obj |-> TRUE, attrs |-> "all", title |-> "Movie A", year |-> NoneV, type |-> "enum"]
NullMedia == [obj |-> TRUE, attrs |-> "all", title |-> NoneV, year |-> NoneV, type |-> NoneV]

\* transferinfo: None, or an object. target_item / target_diritem: Absent (no
\* such attribute), None, "nopath" (an item whose path is None) or "path".
\* success: "true", "false" or Absent. file_list_new: the attribute is missing,
\* None, or a list of Path objects.
NoFiles == [attr |-> Absent, items |-> <<>>]
NoneFiles == [attr |-> NoneV, items |-> <<>>]
PathA == "Path(/lib/a.mkv)"
PathB == "Path(/lib/b.mkv)"
FileLists ==
    {NoFiles, NoneFiles} \cup
    [attr : {"list"}, items : {<<>>, <<PathA>>, <<PathA, PathB>>, <<PathB, PathA>>}]
NoTransfer == [obj |-> FALSE, target_item |-> Absent, target_diritem |-> Absent, success |-> Absent,
     file_list_new |-> NoFiles]
BadTransfer == [obj |-> TRUE, target_item |-> Absent, target_diritem |-> Absent, success |-> "true",
     file_list_new |-> NoFiles]
OkTransfer == [obj |-> TRUE, target_item |-> "path", target_diritem |-> NoneV, success |-> "true",
     file_list_new |-> NoFiles]
FailedTransfer == [obj |-> TRUE, target_item |-> "path", target_diritem |-> NoneV, success |-> "false",
     file_list_new |-> NoFiles]
NoFlagTransfer == [obj |-> TRUE, target_item |-> "path", target_diritem |-> NoneV, success |-> Absent,
     file_list_new |-> NoFiles]
DirTransfer == [obj |-> TRUE, target_item |-> "nopath", target_diritem |-> "path", success |-> "false",
     file_list_new |-> NoFiles]
NoPathTransfer == [obj |-> TRUE, target_item |-> NoneV, target_diritem |-> NoneV, success |-> "true",
     file_list_new |-> NoFiles]
BothTransfer == [obj |-> TRUE, target_item |-> "path", target_diritem |-> "path", success |-> "true",
     file_list_new |-> NoFiles]
TransferInfos ==
    {NoTransfer, BadTransfer, OkTransfer, FailedTransfer, NoFlagTransfer,
     DirTransfer, NoPathTransfer, BothTransfer}

\* event.event_data: None, {} or a dict; its "type" is missing, Organize or
\* another NotificationType.
Events ==
    {[data |-> d, type |-> NoneV, meta |-> NoMeta, mediainfo |-> NoMedia,
      transferinfo |-> NoTransfer] : d \in {NoneV, "empty"}}
    \cup
    [data : {"dict"}, type : {NoneV, "Other"}, meta : {NoMeta},
     mediainfo : {OkMedia}, transferinfo : {OkTransfer}]
    \cup
    [data : {"dict"}, type : {"Organize"}, meta : {NoMeta},
     mediainfo : {OkMedia}, transferinfo : TransferInfos]
    \cup
    [data : {"dict"}, type : {"Organize"}, meta : {NoMeta},
     mediainfo : {NoMedia, BadMedia, StrMedia},
     transferinfo : {NoTransfer, OkTransfer, FailedTransfer}]
    \cup
    [data : {"dict"}, type : {"Organize"}, meta : {NoMeta},
     mediainfo : {NoIdsMedia}, transferinfo : {OkTransfer}]
    \cup
    [data : {"dict"}, type : {"Organize"}, meta : {OkMeta, TypeNoneMeta},
     mediainfo : {NoMedia}, transferinfo : {OkTransfer}]

NoEvent == [data |-> NoneV, type |-> NoneV, meta |-> NoMeta, mediainfo |-> NoMedia,
            transferinfo |-> NoTransfer]

\* ------------------------------------------------------------ target path
ItemPath == "/lib/item.mkv"
DirPath == "/lib/dir"
Raise == "raise"
TargetPathDirFirst(ti, default) ==
    IF ti.target_item = Absent THEN Raise
    ELSE IF ti.target_diritem = Absent THEN Raise
    ELSE IF ti.target_diritem = "path" THEN DirPath
    ELSE IF ti.target_item = "path" THEN ItemPath
    ELSE default

\* if ti.target_item and ti.target_item.path: str(ti.target_item.path)
\* elif ti.target_diritem and ti.target_diritem.path: str(ti.target_diritem.path)
\* Reading an attribute the object lacks raises AttributeError.
TargetPath(ti, default) ==
    IF ti.target_item = Absent THEN Raise
    ELSE IF ti.target_item = "path" THEN ItemPath
    ELSE IF ti.target_diritem = Absent THEN Raise
    ELSE IF ti.target_diritem = "path" THEN DirPath
    ELSE default

\* -------------------------------------------------------- on_notice_message
\* The decision sequence of on_notice_message, lines 633-698: "skip" is a plain
\* return, "raise" an exception caught by the handler's except clause, "push"
\* the call of _process_transfer_push.
GateMissingConfigLate(en, url, tok, only, e) ==
    IF ~en THEN "skip"
    ELSE IF e.data # "dict" THEN "skip"
    ELSE IF e.type # "Organize" THEN "skip"
    ELSE IF e.mediainfo.obj /\ e.mediainfo.attrs = "none" THEN Raise
    ELSE IF ~e.transferinfo.obj THEN "skip"
    ELSE IF TargetPath(e.transferinfo, "") = Raise THEN Raise
    ELSE IF only /\ e.transferinfo.success = Absent THEN Raise
    ELSE IF only /\ e.transferinfo.success = "false" THEN "skip"
    ELSE IF url = <<>> \/ tok = "" THEN "skip"
    ELSE "push"

GateNoTypeCheck(en, url, tok, only, e) ==
    IF ~en THEN "skip"
    ELSE IF url = <<>> \/ tok = "" THEN "skip"
    ELSE IF e.data # "dict" THEN "skip"
    ELSE IF e.mediainfo.obj /\ e.mediainfo.attrs = "none" THEN Raise
    ELSE IF ~e.transferinfo.obj THEN "skip"
    ELSE IF TargetPath(e.transferinfo, "") = Raise THEN Raise
    ELSE IF only /\ e.transferinfo.success = Absent THEN Raise
    ELSE IF only /\ e.transferinfo.success = "false" THEN "skip"
    ELSE "push"

Gate(en, url, tok, only, e) ==
    IF ~en THEN "skip"                                        \* 633
    ELSE IF url = <<>> \/ tok = "" THEN "skip"                \* 638
    ELSE IF e.data # "dict" THEN "skip"                       \* 645
    ELSE IF e.type # "Organize" THEN "skip"                   \* 652
    ELSE IF e.mediainfo.obj /\ e.mediainfo.attrs = "none" THEN Raise  \* 667-669
    ELSE IF ~e.transferinfo.obj THEN "skip"                   \* 673
    ELSE IF TargetPath(e.transferinfo, "") = Raise THEN Raise \* 679-682
    ELSE IF only /\ e.transferinfo.success = Absent THEN Raise    \* 689
    ELSE IF only /\ e.transferinfo.success = "false" THEN "skip"  \* 689
    ELSE "push"                                               \* 694


\* --------------------------------------------------- _process_transfer_push
\* str(x): the text of a value; str(None) is "None", str(2024) is "2024".
Str(x) ==
    CASE x = NoneV -> "None"
      [] x = "int:2024" -> "2024"
      [] x = PathA -> "/lib/a.mkv"
      [] x = PathB -> "/lib/b.mkv"
      [] OTHER -> x

\* _get_transfer_history_id, lines 818-844: every exception is swallowed.
\* lookup is what TransferHistoryOper.get_by_dest does for the path: it raises,
\* finds no record, finds one for any path, or finds one for one path only.
Lookups == {"raise", "none", "found", "item_only", "dir_only"}
HistoryId == "42"
get_by_dest(lookup, tp) ==
    \/ lookup = "found"
    \/ lookup = "item_only" /\ tp = ItemPath
    \/ lookup = "dir_only" /\ tp = DirPath
get_transfer_history_id_unguarded(ti, lookup) ==
    LET tp == TargetPath(ti, NoneV)
    IN  IF tp = Raise THEN Raise
        ELSE IF tp = NoneV THEN NoneV
        ELSE IF lookup = "raise" THEN Raise
        ELSE IF get_by_dest(lookup, tp) THEN HistoryId
        ELSE NoneV
get_transfer_history_id(ti, lookup) ==
    LET tp == TargetPath(ti, NoneV)
    IN  IF tp = Raise \/ tp = NoneV THEN NoneV
        ELSE IF lookup # "raise" /\ get_by_dest(lookup, tp) THEN HistoryId
        ELSE NoneV

\* The payload fields of lines 754-779 that depend on the event; Raise when
\* building the dict raises.
PayloadTitle(meta, mi) ==
    IF mi.obj THEN mi.title
    ELSE IF meta.obj /\ meta.name # Absent THEN meta.name
    ELSE ""

PayloadYearRaw(meta, mi) ==
    IF mi.obj /\ mi.year # NoneV THEN mi.year
    ELSE IF meta.obj /\ meta.year # Absent THEN meta.year
    ELSE ""
PayloadYear(meta, mi) ==
    IF mi.obj /\ mi.year # NoneV THEN Str(mi.year)
    ELSE IF meta.obj /\ meta.year # Absent THEN Str(meta.year)
    ELSE ""

\* mediainfo.type.value / meta.type.value: only an enum member has .value.
PayloadType(meta, mi) ==
    IF mi.obj /\ mi.type # NoneV
    THEN IF mi.type = "enum" THEN "movie" ELSE Raise
    ELSE IF meta.obj /\ meta.type # Absent
         THEN IF meta.type = "enum" THEN "tv" ELSE Raise
         ELSE "unknown"

PayloadSuccess(ti) == IF ti.success = Absent THEN "true" ELSE ti.success

\* Lines 749-751: the new files of the transfer, as strings.
FileListRaw(ti) ==
    IF ti.file_list_new.attr = "list" THEN ti.file_list_new.items ELSE <<>>
FileList(ti) ==
    IF ti.file_list_new.attr = "list" /\ ti.file_list_new.items # <<>>
    THEN [i \in 1..Len(ti.file_list_new.items) |-> Str(ti.file_list_new.items[i])]
    ELSE <<>>

NoPayload ==
    [transferHistoryId |-> NoneV, title |-> "", year |-> "", type |-> "",
     targetPath |-> "", fileList |-> <<>>, fileCount |-> 0, success |-> ""]

\* Lines 739-779 raise: a target attribute, title, .value or an id is missing.
PayloadNeverRaises(e) == FALSE
PayloadRaises(e) ==
    \/ TargetPath(e.transferinfo, "") = Raise
    \/ e.mediainfo.obj /\ e.mediainfo.attrs = "none"
    \/ PayloadType(e.meta, e.mediainfo) = Raise
    \/ e.mediainfo.obj /\ e.mediainfo.attrs = "noids"

\* Lines 739-779: the payload, when building it does not raise.
BuildPayload(e, lookup) ==
    [transferHistoryId |-> get_transfer_history_id(e.transferinfo, lookup),
     title |-> PayloadTitle(e.meta, e.mediainfo),
     year |-> PayloadYear(e.meta, e.mediainfo),
     type |-> PayloadType(e.meta, e.mediainfo),
     targetPath |-> TargetPath(e.transferinfo, ""),
     fileList |-> FileList(e.transferinfo),
     fileCount |-> Len(FileList(e.transferinfo)),
     success |-> PayloadSuccess(e.transferinfo)]

\* ------------------------------------------------------------ _update_stats
NoStats == [total |-> -1, success |-> -1, failed |-> -1]   \* get_data gives None
DefaultStats == [total |-> 0, success |-> 0, failed |-> 0]

\* self.get_data("stats") or {"total": 0, "success": 0, "failed": 0}
ReadStats(st) == IF st = NoStats THEN DefaultStats ELSE st

\* Lines 922-926 on the record read at line 921.
BumpStatsNoTotal(st, kind) ==
    [total |-> st.total,
     success |-> st.success + (IF kind = "success" THEN 1 ELSE 0),
     failed |-> st.failed + (IF kind = "failed" THEN 1 ELSE 0)]

BumpStats(st, kind) ==
    [total |-> st.total + 1,
     success |-> st.success + (IF kind = "success" THEN 1 ELSE 0),
     failed |-> st.failed + (IF kind = "failed" THEN 1 ELSE 0)]

\* -------------------------------------------------------- _save_recent_push
\* Lines 936-941: append, keep the last 100.
KeepAll(s, n) == s
First(s, n) == IF Len(s) > n THEN SubSeq(s, 1, n) ELSE s
Last(s, n) == IF Len(s) > n THEN SubSeq(s, Len(s) - n + 1, Len(s)) ELSE s
save_recent_push(log, rec) == Last(Append(log, rec), MaxRecent)


\* ------------------------------------------------------------- _push_to_api
\* What one requests.post of line 869 can end in.
Outcomes == {"200", "200_badjson", "non200", "timeout", "connection_error", "exception"}

\* Line 879: response.status_code == 200 (a body that is no JSON only logs).
IsSuccessNever(o) == FALSE
IsSuccessStrict(o) == o = "200"
IsSuccess(o) == o \in {"200", "200_badjson"}

\* What the attempt leaves in `response`: the 200 response, or no usable
\* response (another status, or an exception before one was assigned).
Seen(o) == IF o \in {"200", "200_badjson"} THEN o ELSE "error"

\* Lines 891-901: what the failed attempt leaves in last_error.
ErrorOf(o) == IF o = "non200" THEN "http" ELSE o

\* Line 859: while retry_count <= self._retry_times
LoopContinuesStrict(rc, rt) == rc < rt
LoopContinues(rc, rt) == rc <= rt

\* Line 905: if retry_count <= self._retry_times: time.sleep(2)
ShouldSleepAlways(rc, rt) == TRUE
ShouldSleep(rc, rt) == rc <= rt

\* --------------------------------------------------------------- exceptions
\* The except clause that catches an exception raised at a place of the code,
\* by the try statements around it: the body of on_notice_message's try
\* (lines 644-694), the body of _process_transfer_push's try (739-804), its
\* except clause (807-816, run inside the call of line 694), the except clause
\* of on_notice_message (697-698, inside no try), and the bodies of the try
\* of _update_stats (921-927) and of _save_recent_push (936-941).
CatcherNoTopLevel(site) ==
    CASE site = "process_body" -> "process_except"
      [] site = "stats_body" -> "stats_except"
      [] site = "save_body" -> "save_except"
      [] site = "test_body" -> "test_except"
      [] OTHER -> "host"

Catcher(site) ==
    CASE site = "notice_body" -> "notice_except"
      [] site = "process_body" -> "process_except"
      [] site = "process_except" -> "notice_except"
      [] site = "stats_body" -> "stats_except"
      [] site = "save_body" -> "save_except"
      [] site = "test_body" -> "test_except"
      [] OTHER -> "host"

\* ---------------------------------------------------------- test_connection
\* Lines 127-151: what test_connection returns for the outcome of its POST.
\* response.json() of line 138 is evaluated inside the try, while the result
\* for a 200 is built.
NoResult == [success |-> FALSE, message |-> "none"]
Raised == [success |-> FALSE, message |-> "raised"]
Unconfigured == [success |-> FALSE, message |-> "unconfigured"]
TestResult(o) ==
    CASE o = "200" -> [success |-> TRUE, message |-> "ok"]
      [] o = "non200" -> [success |-> FALSE, message |-> "http"]
      [] OTHER -> [success |-> FALSE, message |-> "exception"]

\* ------------------------------------------------------------------- state
\* What the store holds for "stats" when the plugin starts: nothing, or a
\* record written by earlier runs.
InitStats ==
    {NoStats, DefaultStats,
     [total |-> 2 * MaxInitCount, success |-> MaxInitCount, failed |-> MaxInitCount]}

NoUpdates == [success |-> 0, failed |-> 0]

\* test_connection has not been called.
NoTest ==
    /\ test_result = NoResult
    /\ probe = "none"
    /\ probes = 0
    /\ posted = "none"

\* No handler is running.
Idle ==
    /\ pc = [p \in Procs |-> "idle"]
    /\ ev = [p \in Procs |-> NoEvent]
    /\ payload = [p \in Procs |-> NoPayload]
    /\ target_path = [p \in Procs |-> "unset"]
    /\ retry_count = [p \in Procs |-> 0]
    /\ response = [p \in Procs |-> "none"]
    /\ last_error = [p \in Procs |-> "none"]
    /\ stats_local = [p \in Procs |-> NoStats]
    /\ upd_kind = [p \in Procs |-> "none"]
    /\ ret = [p \in Procs |-> "idle"]
    /\ posts = [p \in Procs |-> 0]
    /\ sleeps = [p \in Procs |-> 0]
    /\ updates = [p \in Procs |-> NoUpdates]
    /\ stats0 = [p \in Procs |-> NoStats]
    /\ recent0 = [p \in Procs |-> <<>>]

Init ==
    /\ enabled = FALSE                 \* class attributes, lines 42-49
    /\ api_url = <<>>
    /\ api_token = ""
    /\ only_success = TRUE
    /\ retry_times = DefaultRetryTimes
    /\ stats \in InitStats
    /\ recent_pushes = <<>>
    /\ threads = {"h1"}
    /\ Idle
    /\ handled = 0
    /\ NoTest

AllIdle == \A q \in Procs : pc[q] = "idle"

\* ------------------------------------------------- the log followed alone
\* A record left in the store by an earlier run, and the record saved for the
\* n-th event handled in this run (lines 799-804 and 811-816).
OldRecord == [timestamp |-> 0, title |-> "Movie A", target_path |-> ItemPath, success |-> TRUE]
NewRecord(n) ==
    [timestamp |-> n, title |-> "Movie A", target_path |-> ItemPath, success |-> n % 2 = 0]

\* What the store holds for "recent_pushes" when the plugin starts: nothing, or
\* a log earlier runs have filled up to the limit or to one below it.
StartLogs == {[i \in 1..k |-> OldRecord] : k \in {0, MaxRecent - 1, MaxRecent}}

InitLog ==
    /\ enabled = TRUE
    /\ api_url = <<"u">>
    /\ api_token = "tok"
    /\ only_success = TRUE
    /\ retry_times = DefaultRetryTimes
    /\ stats = NoStats
    /\ recent_pushes \in StartLogs
    /\ threads = {"h1"}
    /\ Idle
    /\ handled = 0
    /\ NoTest

\* _save_recent_push(push_data), lines 936-941, for one more handled event; the
\* steps of the handler before it are left out.
save_recent_call ==
    /\ handled < MaxInserts
    /\ handled' = handled + 1
    /\ recent_pushes' = save_recent_push(recent_pushes, NewRecord(handled + 1))
    /\ UNCHANGED <<config_vars, stats, threads, local_vars, effect_vars, stats0, recent0, test_vars>>

NextLog == save_recent_call

SpecLog == InitLog /\ [][NextLog]_vars

\* init_plugin(config) with a non-empty config, lines 55-63. The host loads
\* the configuration while no event is being handled.
init_plugin(c) ==
    /\ AllIdle
    /\ enabled' = Get(c.enabled, FALSE)
    /\ api_url' = RStrip(Get(c.api_url, <<>>))
    /\ api_token' = Get(c.api_token, "")
    /\ only_success' = Get(c.only_success, TRUE)
    /\ retry_times' = Get(c.retry_times, DefaultRetryTimes)
    /\ UNCHANGED <<store_vars, threads, local_vars, effect_vars, hist_vars, test_vars>>

\* The call of _update_stats(kind), and the place to go on at afterwards.
CallUpdateStats(p, kind, after) ==
    /\ pc' = [pc EXCEPT ![p] = "stats_read"]
    /\ upd_kind' = [upd_kind EXCEPT ![p] = kind]
    /\ ret' = [ret EXCEPT ![p] = after]

\* An exception raised at `site` in thread p: control goes to the except
\* clause that catches it, or leaves on_notice_message when none does.
RaiseAt(p, site) ==
    LET c == Catcher(site)
    IN  CASE c = "notice_except" -> CallUpdateStats(p, "failed", "done")      \* 696-698
          [] c = "process_except" -> CallUpdateStats(p, "failed", "save_failed") \* 806-808
          [] c = "stats_except" ->                                            \* 928-929
               /\ pc' = [pc EXCEPT ![p] = ret[p]]
               /\ UNCHANGED <<upd_kind, ret>>
          [] c = "save_except" ->                                             \* 942-943
               /\ pc' = [pc EXCEPT ![p] = "done"]
               /\ UNCHANGED <<upd_kind, ret>>
          [] OTHER ->
               /\ pc' = [pc EXCEPT ![p] = "escaped"]
               /\ UNCHANGED <<upd_kind, ret>>

\* on_notice_message, lines 629-698, up to the call of _process_transfer_push
\* or of the except clause's _update_stats(failed=True).
on_notice_message(p, e) ==
    /\ p \in threads
    /\ pc[p] = "idle"
    /\ handled < MaxEvents
    /\ handled' = handled + 1
    /\ ev' = [ev EXCEPT ![p] = e]
    /\ stats0' = [stats0 EXCEPT ![p] = stats]
    /\ recent0' = [recent0 EXCEPT ![p] = recent_pushes]
    /\ LET g == Gate(enabled, api_url, api_token, only_success, e)
       IN  CASE g = "skip" ->
                  /\ pc' = [pc EXCEPT ![p] = "done"]
                  /\ UNCHANGED <<upd_kind, ret>>
             [] g = Raise -> RaiseAt(p, "notice_body")
             [] OTHER ->
                  /\ pc' = [pc EXCEPT ![p] = "process"]
                  /\ UNCHANGED <<upd_kind, ret>>
    /\ UNCHANGED <<config_vars, store_vars, threads, payload, target_path,
                   retry_count, response, last_error, stats_local, effect_vars,
                   test_vars>>

\* _process_transfer_push, lines 737-796 up to the call of _push_to_api, or up
\* to the except clause's _update_stats(failed=True) of line 808.
process_transfer_push(p, lookup) ==
    /\ pc[p] = "process"
    /\ LET tp == TargetPath(ev[p].transferinfo, "")
       IN  /\ target_path' = [target_path EXCEPT ![p] = IF tp = Raise THEN "" ELSE tp]
           /\ IF PayloadRaises(ev[p])
              THEN /\ RaiseAt(p, "process_body")
                   /\ UNCHANGED <<payload, retry_count>>
              ELSE /\ payload' = [payload EXCEPT ![p] = BuildPayload(ev[p], lookup)]
                   /\ retry_count' = [retry_count EXCEPT ![p] = 0]
                   /\ pc' = [pc EXCEPT ![p] = "loop"]
                   /\ UNCHANGED <<upd_kind, ret>>
    /\ UNCHANGED <<config_vars, store_vars, threads, ev, response, last_error,
                   stats_local, effect_vars, hist_vars, test_vars>>

push_attempt_status_final(p, o) ==
    /\ pc[p] = "loop"
    /\ LoopContinues(retry_count[p], retry_times)
    /\ posts' = [posts EXCEPT ![p] = @ + 1]
    /\ response' = [response EXCEPT ![p] = Seen(o)]
    /\ IF IsSuccess(o)
       THEN /\ CallUpdateStats(p, "success", "save_ok")
            /\ last_error' = [last_error EXCEPT ![p] = "none"]
            /\ UNCHANGED retry_count
       ELSE /\ retry_count' = [retry_count EXCEPT ![p] =
                                 IF o = "non200" THEN retry_times + 1 ELSE @ + 1]
            /\ last_error' = [last_error EXCEPT ![p] = ErrorOf(o)]
            /\ pc' = [pc EXCEPT ![p] =
                        IF o # "non200" /\ ShouldSleep(retry_count[p] + 1, retry_times)
                        THEN "sleep" ELSE "loop"]
            /\ UNCHANGED <<upd_kind, ret>>
    /\ UNCHANGED <<config_vars, store_vars, threads, ev, payload, target_path,
                   stats_local, sleeps, updates, hist_vars, test_vars>>

\* One pass of the while loop of _push_to_api, lines 859-905, up to the sleep.
\* last_error is a local of _push_to_api: it is gone when the call returns.
push_attempt_retry_in_place(p, o) ==
    /\ pc[p] = "loop"
    /\ LoopContinues(retry_count[p], retry_times)
    /\ posts' = [posts EXCEPT ![p] = @ + 1]
    /\ response' = [response EXCEPT ![p] = Seen(o)]
    /\ IF IsSuccess(o)
       THEN /\ CallUpdateStats(p, "success", "save_ok")
            /\ last_error' = [last_error EXCEPT ![p] = "none"]
            /\ UNCHANGED retry_count
       ELSE /\ retry_count' = [retry_count EXCEPT ![p] =
                                  IF o = "exception" THEN @ ELSE @ + 1]
            /\ last_error' = [last_error EXCEPT ![p] = ErrorOf(o)]
            /\ pc' = [pc EXCEPT ![p] =
                        IF o # "exception" /\ ShouldSleep(retry_count[p] + 1, retry_times)
                        THEN "sleep" ELSE "loop"]
            /\ UNCHANGED <<upd_kind, ret>>
    /\ UNCHANGED <<config_vars, store_vars, threads, ev, payload, target_path,
                   stats_local, sleeps, updates, hist_vars, test_vars>>

push_attempt(p, o) ==
    /\ pc[p] = "loop"
    /\ LoopContinues(retry_count[p], retry_times)
    /\ posts' = [posts EXCEPT ![p] = @ + 1]
    /\ response' = [response EXCEPT ![p] = Seen(o)]
    /\ IF IsSuccess(o)
       THEN /\ CallUpdateStats(p, "success", "save_ok")
            /\ last_error' = [last_error EXCEPT ![p] = "none"]
            /\ UNCHANGED retry_count
       ELSE /\ retry_count' = [retry_count EXCEPT ![p] = @ + 1]
            /\ last_error' = [last_error EXCEPT ![p] = ErrorOf(o)]
            /\ pc' = [pc EXCEPT ![p] =
                        IF ShouldSleep(retry_count[p] + 1, retry_times)
                        THEN "sleep" ELSE "loop"]
            /\ UNCHANGED <<upd_kind, ret>>
    /\ UNCHANGED <<config_vars, store_vars, threads, ev, payload, target_path,
                   stats_local, sleeps, updates, hist_vars, test_vars>>

\* time.sleep(2), line 907.
push_sleep(p) ==
    /\ pc[p] = "sleep"
    /\ sleeps' = [sleeps EXCEPT ![p] = @ + 1]
    /\ pc' = [pc EXCEPT ![p] = "loop"]
    /\ UNCHANGED <<config_vars, store_vars, threads, ev, payload, target_path,
                   retry_count, response, last_error, stats_local, upd_kind, ret,
                   posts, updates, hist_vars, test_vars>>

push_exhausted_silent(p) ==
    /\ pc[p] = "loop"
    /\ ~LoopContinues(retry_count[p], retry_times)
    /\ pc' = [pc EXCEPT ![p] = "save_ok"]
    /\ ret' = [ret EXCEPT ![p] = "save_ok"]
    /\ last_error' = [last_error EXCEPT ![p] = "none"]
    /\ UNCHANGED <<config_vars, store_vars, threads, ev, payload, target_path,
                   retry_count, response, stats_local, upd_kind, effect_vars,
                   hist_vars, test_vars>>

\* The loop is left without a 200: lines 910-914. last_error is logged at line
\* 912 and not read again.
push_exhausted(p) ==
    /\ pc[p] = "loop"
    /\ ~LoopContinues(retry_count[p], retry_times)
    /\ CallUpdateStats(p, "failed", "save_ok")
    /\ last_error' = [last_error EXCEPT ![p] = "none"]
    /\ UNCHANGED <<config_vars, store_vars, threads, ev, payload, target_path,
                   retry_count, response, stats_local, effect_vars, hist_vars,
                   test_vars>>

\* _update_stats, line 921: the read of the persisted record.
update_stats_read(p) ==
    /\ pc[p] = "stats_read"
    /\ stats_local' = [stats_local EXCEPT ![p] = ReadStats(stats)]
    /\ updates' = [updates EXCEPT ![p][upd_kind[p]] = @ + 1]
    /\ pc' = [pc EXCEPT ![p] = "stats_write"]
    /\ UNCHANGED <<config_vars, store_vars, threads, ev, payload, target_path,
                   retry_count, response, last_error, upd_kind, ret, posts, sleeps,
                   hist_vars, test_vars>>

update_stats_write_fields(p) ==
    /\ pc[p] = "stats_write"
    /\ stats' = [BumpStats(ReadStats(stats), upd_kind[p]) EXCEPT
                     !.total = stats_local[p].total + 1]
    /\ pc' = [pc EXCEPT ![p] = ret[p]]
    /\ UNCHANGED <<config_vars, recent_pushes, threads, ev, payload, target_path,
                   retry_count, response, last_error, stats_local, upd_kind, ret,
                   effect_vars, hist_vars, test_vars>>

\* _update_stats, lines 922-927: the increments and the write of the record.
update_stats_write(p) ==
    /\ pc[p] = "stats_write"
    /\ stats' = BumpStats(stats_local[p], upd_kind[p])
    /\ pc' = [pc EXCEPT ![p] = ret[p]]
    /\ UNCHANGED <<config_vars, recent_pushes, threads, ev, payload, target_path,
                   retry_count, response, last_error, stats_local, upd_kind, ret,
                   effect_vars, hist_vars, test_vars>>

\* Lines 799-804: the record saved after _push_to_api has returned.
save_recent_success(p) ==
    /\ pc[p] = "save_ok"
    /\ recent_pushes' = save_recent_push(recent_pushes,
           [timestamp |-> handled, title |-> payload[p].title,
            target_path |-> target_path[p], success |-> TRUE])
    /\ pc' = [pc EXCEPT ![p] = "done"]
    /\ UNCHANGED <<config_vars, stats, threads, ev, payload, target_path,
                   retry_count, response, last_error, stats_local, upd_kind, ret,
                   effect_vars, hist_vars, test_vars>>

save_recent_failure_unrecorded(p) ==
    /\ pc[p] = "save_failed"
    /\ pc' = [pc EXCEPT ![p] = "done"]
    /\ UNCHANGED <<config_vars, store_vars, threads, ev, payload, target_path,
                   retry_count, response, last_error, stats_local, upd_kind, ret,
                   effect_vars, hist_vars, test_vars>>

save_recent_failure_reraise(p) ==
    /\ pc[p] = "save_failed"
    /\ CallUpdateStats(p, "failed", "done")
    /\ UNCHANGED <<config_vars, store_vars, threads, ev, payload, target_path,
                   retry_count, response, last_error, stats_local, effect_vars,
                   hist_vars, test_vars>>

\* Lines 811-816: the record saved by the except clause. Building the record
\* reads mediainfo.title outside any try of _process_transfer_push, so an
\* exception there reaches the except clause of on_notice_message.
save_recent_failure(p) ==
    /\ pc[p] = "save_failed"
    /\ LET mi == ev[p].mediainfo
       IN  IF mi.obj /\ mi.title = Absent
           THEN /\ RaiseAt(p, "process_except")
                /\ UNCHANGED recent_pushes
           ELSE /\ recent_pushes' = save_recent_push(recent_pushes,
                       [timestamp |-> handled,
                        title |-> IF mi.obj THEN mi.title ELSE "N/A",
                        target_path |-> target_path[p], success |-> FALSE])
                /\ pc' = [pc EXCEPT ![p] = "done"]
                /\ UNCHANGED <<upd_kind, ret>>
    /\ UNCHANGED <<config_vars, stats, threads, ev, payload, target_path,
                   retry_count, response, last_error, stats_local, effect_vars,
                   hist_vars, test_vars>>

\* on_notice_message returns to the host.
handler_return(p) ==
    /\ pc[p] = "done"
    /\ pc' = [pc EXCEPT ![p] = "idle"]
    /\ ev' = [ev EXCEPT ![p] = NoEvent]
    /\ payload' = [payload EXCEPT ![p] = NoPayload]
    /\ target_path' = [target_path EXCEPT ![p] = "unset"]
    /\ retry_count' = [retry_count EXCEPT ![p] = 0]
    /\ response' = [response EXCEPT ![p] = "none"]
    /\ stats_local' = [stats_local EXCEPT ![p] = NoStats]
    /\ upd_kind' = [upd_kind EXCEPT ![p] = "none"]
    /\ ret' = [ret EXCEPT ![p] = "idle"]
    /\ posts' = [posts EXCEPT ![p] = 0]
    /\ sleeps' = [sleeps EXCEPT ![p] = 0]
    /\ updates' = [updates EXCEPT ![p] = NoUpdates]
    /\ stats0' = [stats0 EXCEPT ![p] = NoStats]
    /\ recent0' = [recent0 EXCEPT ![p] = <<>>]
    /\ UNCHANGED <<config_vars, store_vars, threads, last_error, handled, test_vars>>

Next ==
    \/ \E c \in Configs : init_plugin(c)
    \/ \E p \in Procs, e \in Events : on_notice_message(p, e)
    \/ \E p \in Procs, l \in Lookups : process_transfer_push(p, l)
    \/ \E p \in Procs, o \in Outcomes : push_attempt(p, o)
    \/ \E p \in Procs : push_sleep(p)
    \/ \E p \in Procs : push_exhausted(p)
    \/ \E p \in Procs : update_stats_read(p)
    \/ \E p \in Procs : update_stats_write(p)
    \/ \E p \in Procs : save_recent_success(p)
    \/ \E p \in Procs : save_recent_failure(p)
    \/ \E p \in Procs : handler_return(p)

Spec == Init /\ [][Next]_vars

\* ---------------------------------------------------- the payload alone
\* Events that pass the gate when only_success is off, with every kind of
\* new-file list, and with meta and mediainfo absent, complete, or holding
\* None in single attributes.
PayloadEvents ==
    [data : {"dict"}, type : {"Organize"},
     meta : {NoMeta, OkMeta, TypeNoneMeta, NoYearMeta},
     mediainfo : {NoMedia, OkMedia, StrMedia, NoYearMedia, NullMedia},
     transferinfo : {[t EXCEPT !.file_list_new = f] :
                        t \in {OkTransfer, DirTransfer, NoPathTransfer}, f \in FileLists}]

\* on_notice_message has reached line 694 for such an event.
InitPayload ==
    /\ enabled = TRUE
    /\ api_url = <<"u">>
    /\ api_token = "tok"
    /\ only_success = FALSE
    /\ retry_times = DefaultRetryTimes
    /\ stats = NoStats
    /\ recent_pushes = <<>>
    /\ threads = {"h1"}
    /\ pc = [p \in Procs |-> IF p = "h1" THEN "process" ELSE "idle"]
    /\ \E e \in PayloadEvents : ev = [p \in Procs |-> IF p = "h1" THEN e ELSE NoEvent]
    /\ payload = [p \in Procs |-> NoPayload]
    /\ target_path = [p \in Procs |-> "unset"]
    /\ retry_count = [p \in Procs |-> 0]
    /\ response = [p \in Procs |-> "none"]
    /\ last_error = [p \in Procs |-> "none"]
    /\ stats_local = [p \in Procs |-> NoStats]
    /\ upd_kind = [p \in Procs |-> "none"]
    /\ ret = [p \in Procs |-> "idle"]
    /\ posts = [p \in Procs |-> 0]
    /\ sleeps = [p \in Procs |-> 0]
    /\ updates = [p \in Procs |-> NoUpdates]
    /\ stats0 = [p \in Procs |-> NoStats]
    /\ recent0 = [p \in Procs |-> <<>>]
    /\ handled = 1
    /\ NoTest

NextPayload == \E l \in Lookups : process_transfer_push("h1", l)

SpecPayload == InitPayload /\ [][NextPayload]_vars

\* ------------------------------------------------------ the probe alone
\* test_connection, lines 108-151. probe keeps the outcome of the POST of line
\* 127 ("unsent" when the call returned at line 109), probes counts the POSTs.
\* An exception raised between lines 114 and 146 is caught at line 147.
TestConnectionCall(o) ==
    IF api_url = <<>> \/ api_token = ""
    THEN /\ test_result' = Unconfigured
         /\ probe' = "unsent"
         /\ UNCHANGED probes
    ELSE /\ probes < MaxProbes
         /\ probes' = probes + 1
         /\ probe' = o
         /\ test_result' =
                IF o \in {"200", "non200"} \/ Catcher("test_body") = "test_except"
                THEN TestResult(o) ELSE Raised

test_connection_counted(o) ==
    /\ TestConnectionCall(o)
    /\ stats' = BumpStats(ReadStats(stats),
                          IF test_result'.success THEN "success" ELSE "failed")
    /\ UNCHANGED <<config_vars, recent_pushes, threads, local_vars, effect_vars,
                   hist_vars, posted>>

\* The endpoint /test of get_api, lines 92-102: test_connection is called.
test_connection(o) ==
    /\ TestConnectionCall(o)
    /\ UNCHANGED <<config_vars, store_vars, threads, local_vars, effect_vars, hist_vars,
                   posted>>

\* handle_plugin_action, lines 701-726: for the action java_upload_test the
\* probe is made and its result posted as a site message; every other event
\* is returned from at once.
PluginActions == {NoneV, "other", "java_upload_test"}
handle_plugin_action(a, o) ==
    IF a # "java_upload_test"
    THEN UNCHANGED vars
    ELSE /\ TestConnectionCall(o)
         /\ posted' = IF test_result'.success THEN "success" ELSE "failed"
         /\ UNCHANGED <<config_vars, store_vars, threads, local_vars, effect_vars,
                        hist_vars>>

NextTest ==
    \/ \E c \in Configs : init_plugin(c)
    \/ \E o \in Outcomes : test_connection(o)
    \/ \E a \in PluginActions, o \in Outcomes : handle_plugin_action(a, o)

SpecTest == Init /\ [][NextTest]_vars

\* ------------------------------------------------- the store may fail
\* get_data("stats") of line 921 raises: caught at line 928, nothing counted.
update_stats_read_fails(p) ==
    /\ pc[p] = "stats_read"
    /\ updates' = [updates EXCEPT ![p][upd_kind[p]] = @ + 1]
    /\ RaiseAt(p, "stats_body")
    /\ UNCHANGED <<config_vars, store_vars, threads, ev, payload, target_path,
                   retry_count, response, last_error, stats_local, posts, sleeps,
                   hist_vars, test_vars>>

\* save_data("stats", stats) of line 927 raises: caught at line 928, the
\* persisted record stays as it was.
update_stats_write_fails(p) ==
    /\ pc[p] = "stats_write"
    /\ RaiseAt(p, "stats_body")
    /\ UNCHANGED <<config_vars, store_vars, threads, ev, payload, target_path,
                   retry_count, response, last_error, stats_local, effect_vars,
                   hist_vars, test_vars>>

\* get_data or save_data of _save_recent_push (lines 936, 941) raises, once
\* the record to save has been built: caught at line 942, the log stays as it
\* was.
save_recent_fails(p) ==
    /\ \/ pc[p] = "save_ok"
       \/ pc[p] = "save_failed" /\ ~(ev[p].mediainfo.obj /\ ev[p].mediainfo.title = Absent)
    /\ RaiseAt(p, "save_body")
    /\ UNCHANGED <<config_vars, store_vars, threads, ev, payload, target_path,
                   retry_count, response, last_error, stats_local, effect_vars,
                   hist_vars, test_vars>>

NextFaulty ==
    \/ Next
    \/ \E p \in Procs : update_stats_read_fails(p)
    \/ \E p \in Procs : update_stats_write_fails(p)
    \/ \E p \in Procs : save_recent_fails(p)

\* The store is followed through the last event of a run: the events before
\* it have left their counts in the persisted stats.
InitFaulty ==
    /\ enabled = FALSE
    /\ api_url = <<>>
    /\ api_token = ""
    /\ only_success = TRUE
    /\ retry_times = DefaultRetryTimes
    /\ stats \in InitStats
    /\ recent_pushes = <<>>
    /\ threads = {"h1"}
    /\ Idle
    /\ handled = MaxEvents - 1
    /\ NoTest

SpecFaulty == InitFaulty /\ [][NextFaulty]_vars

\* ------------------------------------------------- concurrent handlers
\* The host's event manager runs handlers on a thread pool: two calls of
\* on_notice_message run at once, every step of one interleaved with the
\* steps of the other. The plugin is configured; the events are one that is
\* pushed, one whose payload raises, one whose logging raises and one that
\* is skipped.
ConcEvents ==
    {[data |-> "dict", type |-> "Organize", meta |-> NoMeta, mediainfo |-> mi,
      transferinfo |-> OkTransfer] : mi \in {OkMedia, StrMedia, BadMedia}}
    \cup {[NoEvent EXCEPT !.data = "empty"]}
ConcOutcomes == {"200", "non200", "timeout"}

InitConc ==
    /\ enabled = TRUE
    /\ api_url = <<"u">>
    /\ api_token = "tok"
    /\ only_success = TRUE
    /\ retry_times = MaxRetryTimes - 1
    /\ stats \in InitStats
    /\ recent_pushes = <<>>
    /\ threads = Procs
    /\ Idle
    /\ handled = 0
    /\ NoTest

NextConc ==
    \/ \E p \in Procs, e \in ConcEvents : on_notice_message(p, e)
    \/ \E p \in Procs : process_transfer_push(p, "found")
    \/ \E p \in Procs, o \in ConcOutcomes : push_attempt(p, o)
    \/ \E p \in Procs : push_sleep(p)
    \/ \E p \in Procs : push_exhausted(p)
    \/ \E p \in Procs : update_stats_read(p)
    \/ \E p \in Procs : update_stats_write(p)
    \/ \E p \in Procs : save_recent_success(p)
    \/ \E p \in Procs : save_recent_failure(p)
    \/ \E p \in Procs : handler_return(p)

SpecConc == InitConc /\ [][NextConc]_vars


\* ------------------------------------------------- one call of _push_to_api
\* _process_transfer_push has built the payload of a well-formed event and
\* calls _push_to_api (line 796), for every retry_times init_plugin can store.
PushEvent ==
    [data |-> "dict", type |-> "Organize", meta |-> NoMeta, mediainfo |-> OkMedia,
     transferinfo |-> OkTransfer]

InitPush ==
    /\ enabled = TRUE
    /\ api_url = <<"u">>
    /\ api_token = "tok"
    /\ only_success \in BOOLEAN
    /\ retry_times \in RetryTimes
    /\ stats \in InitStats
    /\ recent_pushes = <<>>
    /\ threads = {"h1"}
    /\ pc = [p \in Procs |-> IF p = "h1" THEN "loop" ELSE "idle"]
    /\ ev = [p \in Procs |-> IF p = "h1" THEN PushEvent ELSE NoEvent]
    /\ payload = [p \in Procs |->
                     IF p = "h1" THEN BuildPayload(PushEvent, "found") ELSE NoPayload]
    /\ target_path = [p \in Procs |-> IF p = "h1" THEN ItemPath ELSE "unset"]
    /\ retry_count = [p \in Procs |-> 0]
    /\ response = [p \in Procs |-> "none"]
    /\ last_error = [p \in Procs |-> "none"]
    /\ stats_local = [p \in Procs |-> NoStats]
    /\ upd_kind = [p \in Procs |-> "none"]
    /\ ret = [p \in Procs |-> "idle"]
    /\ posts = [p \in Procs |-> 0]
    /\ sleeps = [p \in Procs |-> 0]
    /\ updates = [p \in Procs |-> NoUpdates]
    /\ stats0 = [p \in Procs |-> IF p = "h1" THEN stats ELSE NoStats]
    /\ recent0 = [p \in Procs |-> <<>>]
    /\ handled = 1
    /\ NoTest

\* The steps of _push_to_api, lines 850-914, _update_stats included.
NextPush ==
    \/ \E o \in Outcomes : push_attempt("h1", o)
    \/ push_sleep("h1")
    \/ push_exhausted("h1")
    \/ update_stats_read("h1")
    \/ update_stats_write("h1")

\* The thread that runs _push_to_api keeps running: every HTTP call returns or
\* times out (timeout=self._timeout, line 873), time.sleep(2) returns, and the
\* store answers.
SpecPush == InitPush /\ [][NextPush]_vars /\ WF_vars(NextPush)


\* ----------------------------------------------------------------- claims
Now == ReadStats(stats)
Before(p) == ReadStats(stats0[p])
UpdateCalls(p) == updates[p].success + updates[p].failed

\* The handler of p has sent nothing and changed nothing so far.
Untouched(p) ==
    /\ posts[p] = 0
    /\ updates[p] = NoUpdates
    /\ stats = stats0[p]
    /\ recent_pushes = recent0[p]

\* The handler of p has sent no POST and left the persisted values alone.
NothingChanged(p) ==
    /\ posts[p] = 0
    /\ stats = stats0[p]
    /\ recent_pushes = recent0[p]

\* The persisted stats count the event of p exactly once.
CountedOnce(p) ==
    /\ Now.total = Before(p).total + 1
    /\ \/ Now.success = Before(p).success + 1 /\ Now.failed = Before(p).failed
       \/ Now.success = Before(p).success /\ Now.failed = Before(p).failed + 1

Configured == api_url # <<>> /\ api_token # ""

\* C1: no stats update is made while _push_to_api is still trying, and when
\* it has returned (line 799 is reached) _update_stats has been called exactly
\* once by it, and the persisted total has grown by exactly one.
C1_ExactlyOneStatsUpdate ==
    \A p \in Procs :
        /\ pc[p] \in {"loop", "sleep"} => updates[p] = NoUpdates /\ stats = stats0[p]
        /\ ret[p] = "save_ok" /\ pc[p] \in {"stats_write", "save_ok", "done"}
               => UpdateCalls(p) = 1
        /\ pc[p] = "save_ok" => CountedOnce(p)

\* _push_to_api has returned after three failed attempts and one failed update.
C1_Witness ==
    \E p \in Procs :
        pc[p] = "save_ok" /\ posts[p] = 3 /\ updates[p] = [success |-> 0, failed |-> 1]

\* C2: with retry_times = R >= 0, _push_to_api never sends more than R+1
\* POSTs, and when it records the failure of a delivery (no attempt got a 200)
\* it has sent exactly R+1 of them; the failure then counts once in failed.
C2_RetryCount ==
    \A p \in Procs :
        retry_times >= 0 =>
            /\ posts[p] <= retry_times + 1
            /\ ret[p] = "save_ok" /\ upd_kind[p] = "failed"
                   => posts[p] = retry_times + 1 /\ response[p] = "error"
            /\ ret[p] = "save_ok" /\ upd_kind[p] = "failed" /\ pc[p] \in {"save_ok", "done"}
                   => Now.failed = Before(p).failed + 1

\* A delivery with retry_times = 2 has failed for good after three POSTs.
C2_Witness ==
    \E p \in Procs :
        /\ retry_times = 2 /\ pc[p] = "done" /\ ret[p] = "save_ok"
        /\ upd_kind[p] = "failed" /\ posts[p] = 3

\* C3: the persisted stats satisfy total = success + failed in every state.
C3_TotalIsSum ==
    stats # NoStats => stats.total = stats.success + stats.failed

\* A success and a failure have been counted on top of persisted counters.
C3_Witness ==
    stats # NoStats /\ stats.success > MaxInitCount /\ stats.failed > MaxInitCount

\* C4: when on_notice_message returns for an event that passed the gate, the
\* event has been counted exactly once: one call of _update_stats, total one
\* larger, and exactly one of success and failed one larger, whether the
\* payload was pushed or building it raised.
C4_CountedExactlyOnce ==
    \A p \in Procs :
        pc[p] = "done" /\ Gate(enabled, api_url, api_token, only_success, ev[p]) = "push"
            => UpdateCalls(p) = 1 /\ CountedOnce(p)

\* An event passed the gate, building its payload raised, and the handler of
\* _process_transfer_push has counted it and saved the failure record.
C4_Witness ==
    \E p \in Procs :
        /\ pc[p] = "done" /\ ret[p] = "save_failed"
        /\ Gate(enabled, api_url, api_token, only_success, ev[p]) = "push"
        /\ updates[p] = [success |-> 0, failed |-> 1]

\* C5: once an attempt has received HTTP 200, the call only records the
\* success: it never goes back to the loop or to the sleep, the POSTs stay
\* at one more than the failed attempts before it and the sleeps at the number
\* of those failed attempts, and success and total grow by one, failed by none.
C5_SuccessEndsDelivery ==
    \A p \in Procs :
        response[p] \in {"200", "200_badjson"} =>
            /\ pc[p] \in {"stats_read", "stats_write", "save_ok", "done"}
            /\ upd_kind[p] = "success" /\ ret[p] = "save_ok"
            /\ posts[p] = retry_count[p] + 1
            /\ sleeps[p] = retry_count[p]
            /\ pc[p] \in {"save_ok", "done"} =>
                   /\ Now.success = Before(p).success + 1
                   /\ Now.total = Before(p).total + 1
                   /\ Now.failed = Before(p).failed

\* A delivery has succeeded at its third attempt.
C5_Witness ==
    \E p \in Procs :
        response[p] = "200" /\ retry_count[p] = 2 /\ pc[p] = "done"

\* C6: an event without a notification type, or with one that is not
\* Organize, is returned from at once with nothing sent and nothing changed.
C6_NonOrganizeUntouched ==
    \A p \in Procs :
        pc[p] # "idle" /\ (ev[p].data # "dict" \/ ev[p].type # "Organize")
            => pc[p] = "done" /\ Untouched(p)

\* The enabled and configured plugin has skipped an event of another type
\* whose transfer result would have been pushed.
C6_Witness ==
    \E p \in Procs :
        /\ pc[p] = "done" /\ enabled /\ Configured
        /\ ev[p].type = "Other" /\ ev[p].transferinfo = OkTransfer

\* C7: an Organize event whose transfer result has success = false, handled
\* while only_success is true, sends no POST and leaves stats and log alone.
C7_OnlySuccessSkips ==
    \A p \in Procs :
        /\ pc[p] # "idle" /\ only_success
        /\ ev[p].data = "dict" /\ ev[p].type = "Organize"
        /\ ev[p].transferinfo.obj /\ ev[p].transferinfo.success = "false"
        => NothingChanged(p)

\* C8: with only_success = false, a handled Organize event whose transfer
\* result has success = false (plugin enabled and configured) has had at least
\* one POST sent and has been counted in total.
C8_FailedTransferIsPushed ==
    \A p \in Procs :
        /\ pc[p] = "done" /\ enabled /\ Configured /\ ~only_success
        /\ ev[p].data = "dict" /\ ev[p].type = "Organize"
        /\ ev[p].transferinfo.obj /\ ev[p].transferinfo.success = "false"
        => posts[p] >= 1 /\ Now.total = Before(p).total + 1

\* C9: while api_url or api_token is empty, every event is returned from at
\* once with nothing sent and nothing changed.
C9_UnconfiguredUntouched ==
    \A p \in Procs :
        pc[p] # "idle" /\ ~Configured => pc[p] = "done" /\ Untouched(p)

\* The enabled plugin without a URL has skipped an Organize event whose
\* mediainfo raises as soon as it is read.
C9_Witness ==
    \E p \in Procs :
        /\ pc[p] = "done" /\ enabled /\ api_url = <<>> /\ api_token # ""
        /\ ev[p].type = "Organize" /\ ev[p].mediainfo = BadMedia

\* C10: an event handled while the plugin is disabled, an event without
\* payload, and an event without transfer result each send no POST and leave
\* stats and log alone.
C10_SilentSkips ==
    \A p \in Procs :
        pc[p] # "idle" /\ (~enabled \/ ev[p].data # "dict" \/ ~ev[p].transferinfo.obj)
            => NothingChanged(p)

\* C11: the persisted recent-push log never holds more than 100 entries,
\* whatever log of at most 100 entries the run started from and however many
\* records have been saved since.
C11_LogAtMost100 == Len(recent_pushes) <= MaxRecent

\* A record has been saved into a log that already held 100 entries: the log
\* still holds 100, the oldest one is gone.
C11_Witness ==
    /\ handled = 1 /\ Len(recent_pushes) = MaxRecent
    /\ recent_pushes[1] = OldRecord /\ recent_pushes[MaxRecent] = NewRecord(1)

\* C12: the log is the tail of everything ever saved, in the order saved: its
\* i-th entry from the end is the i-th latest record, the entries before the
\* records of this run are the ones found at the start, and when the log holds
\* no entry found at the start it holds exactly the last min(n, 100) of the n
\* records saved.
C12_LogIsTailInOrder ==
    LET L == Len(recent_pushes)
    IN  /\ \A i \in 1..L :
               recent_pushes[i] =
                   IF handled - L + i >= 1 THEN NewRecord(handled - L + i) ELSE OldRecord
        /\ (\A i \in 1..L : recent_pushes[i] # OldRecord) =>
               L = IF handled < MaxRecent THEN handled ELSE MaxRecent

\* 105 records were saved into an empty log: the log holds records 6 to 105.
C12_Witness ==
    /\ handled = 105 /\ Len(recent_pushes) = MaxRecent
    /\ recent_pushes[1] = NewRecord(6) /\ recent_pushes[MaxRecent] = NewRecord(105)

\* C13: with retry_times = R >= 0 every pause of _push_to_api stands between
\* two attempts: it follows a failed attempt and another attempt follows it,
\* so the pauses are one fewer than the POSTs as soon as they are over; a
\* delivery that has failed for good has paused exactly R times for its R+1
\* POSTs, and nothing pauses after a 200.
C13_PausesBetweenAttempts ==
    \A p \in Procs :
        retry_times >= 0 =>
            /\ pc[p] = "sleep" =>
                   /\ response[p] = "error"
                   /\ sleeps[p] = posts[p] - 1
                   /\ LoopContinues(retry_count[p], retry_times)
            /\ pc[p] = "loop" /\ LoopContinues(retry_count[p], retry_times)
                   => sleeps[p] = posts[p]
            /\ pc[p] = "loop" /\ ~LoopContinues(retry_count[p], retry_times)
                   => sleeps[p] = posts[p] - 1
            /\ ret[p] = "save_ok" /\ upd_kind[p] = "failed"
                   => sleeps[p] = retry_times /\ posts[p] = retry_times + 1
            /\ ret[p] = "save_ok" /\ upd_kind[p] = "success"
                   => sleeps[p] = posts[p] - 1

\* With retry_times = 2 the third attempt has failed: two pauses were taken
\* and the loop is left without a third.
C13_Witness ==
    \E p \in Procs :
        /\ retry_times = 2 /\ pc[p] = "loop" /\ retry_count[p] = 3
        /\ posts[p] = 3 /\ sleeps[p] = 2

\* C14: a failed attempt of _push_to_api has the same effect whatever made it
\* fail. A non-200 status, a timeout, a connection error and any other
\* exception each add one POST and one to retry_count, lead to the pause when
\* an attempt is left and to the end of the loop when none is, and record
\* nothing; and leaving the loop records one failure whatever the last error.
C14_FailureKindsAlike ==
    [][\A p \in Procs :
         /\ \A o \in {"non200", "timeout", "connection_error", "exception"} :
                push_attempt(p, o) =>
                    /\ posts'[p] = posts[p] + 1
                    /\ retry_count'[p] = retry_count[p] + 1
                    /\ pc'[p] = IF retry_count[p] + 1 <= retry_times THEN "sleep" ELSE "loop"
                    /\ response'[p] = "error"
                    /\ sleeps' = sleeps /\ updates' = updates /\ stats' = stats
         /\ push_exhausted(p) =>
                /\ pc'[p] = "stats_read" /\ upd_kind'[p] = "failed"
                /\ posts' = posts /\ sleeps' = sleeps
      ]_vars

\* The second attempt has timed out after a first failure: the pause before
\* the third attempt is about to be taken.
C14_Witness ==
    \E p \in Procs :
        /\ pc[p] = "sleep" /\ last_error[p] = "timeout"
        /\ posts[p] = 2 /\ sleeps[p] = 1 /\ updates[p] = NoUpdates

\* C15: no exception leaves on_notice_message. Whatever the event, the
\* lookup, the HTTP outcomes and the store do, every exception raised while an
\* event is handled is caught by an except clause of the plugin, and the
\* handler is at one of its own steps or has returned.
C15_NothingEscapes ==
    \A p \in Procs :
        /\ pc[p] # "escaped"
        /\ pc[p] \in {"idle", "process", "loop", "sleep", "stats_read", "stats_write",
                      "save_ok", "save_failed", "done"}

\* The handler is about to return for an event whose payload could not be
\* built, after the store failed both for the stats and for the log: the
\* update was attempted, and neither persisted value has changed.
C15_Witness ==
    \E p \in Procs :
        /\ pc[p] = "done" /\ ret[p] = "save_failed"
        /\ updates[p] = [success |-> 0, failed |-> 1]
        /\ stats = stats0[p] /\ recent_pushes = recent0[p]

\* C16: when on_notice_message is about to return for an event that passed
\* the gate and whose payload cannot be built (mediainfo.type is a plain
\* string, mediainfo lacks an id attribute, or meta.type is None), no POST was
\* sent, failed and total are one larger and success is as before, and the
\* log is the log as it was with one record more, whose success is false.
C16_PayloadFailureIsCounted ==
    \A p \in Procs :
        /\ pc[p] = "done"
        /\ Gate(enabled, api_url, api_token, only_success, ev[p]) = "push"
        /\ \/ ev[p].mediainfo \in {StrMedia, NoIdsMedia}
           \/ ~ev[p].mediainfo.obj /\ ev[p].meta = TypeNoneMeta
        => /\ posts[p] = 0
           /\ Now.failed = Before(p).failed + 1
           /\ Now.total = Before(p).total + 1
           /\ Now.success = Before(p).success
           /\ Len(recent_pushes) = Len(recent0[p]) + 1
           /\ SubSeq(recent_pushes, 1, Len(recent0[p])) = recent0[p]
           /\ recent_pushes[Len(recent_pushes)].success = FALSE

\* The second event of a run had a mediainfo whose type is a string: it was
\* counted failed and its record follows the record of the first event.
C16_Witness ==
    \E p \in Procs :
        /\ pc[p] = "done" /\ ev[p].mediainfo = StrMedia /\ posts[p] = 0
        /\ Len(recent_pushes) = 2
        /\ recent_pushes[2] = [timestamp |-> 2, title |-> "Movie A",
                                target_path |-> ItemPath, success |-> FALSE]

\* C17: an attempt answered with HTTP 200 and a body that is no JSON is a
\* success like any other 200: the call goes on to record it and to nothing
\* else, no failure is recorded, its POST is the last one, and once recorded
\* success and total are one larger and failed is as before.
C17_BadJsonIsSuccess ==
    \A p \in Procs :
        response[p] = "200_badjson" =>
            /\ pc[p] \notin {"loop", "sleep", "save_failed"}
            /\ upd_kind[p] = "success"
            /\ updates[p].failed = 0
            /\ posts[p] = retry_count[p] + 1
            /\ pc[p] = "done" =>
                   /\ updates[p] = [success |-> 1, failed |-> 0]
                   /\ Now.success = Before(p).success + 1
                   /\ Now.total = Before(p).total + 1
                   /\ Now.failed = Before(p).failed
                   /\ recent_pushes[Len(recent_pushes)].success = TRUE

\* The first attempt got a 200 whose body is no JSON, and the delivery has
\* been recorded.
C17_Witness ==
    \E p \in Procs :
        /\ response[p] = "200_badjson" /\ pc[p] = "done" /\ posts[p] = 1
        /\ stats = [total |-> 1, success |-> 1, failed |-> 0]

\* C18: when the transfer-history lookup raises or finds no record, and the
\* rest of the payload can be built, _process_transfer_push builds the payload
\* with transferHistoryId = None and calls _push_to_api: the step ends at the
\* head of the retry loop, with nothing counted.
C18_LookupNeverBlocksPush ==
    [][\A p \in Procs : \A l \in {"raise", "none"} :
         process_transfer_push(p, l) /\ ~PayloadRaises(ev[p]) =>
             /\ payload'[p].transferHistoryId = NoneV
             /\ payload'[p].targetPath = TargetPath(ev[p].transferinfo, "")
             /\ pc'[p] = "loop" /\ retry_count'[p] = 0
             /\ updates' = updates /\ stats' = stats
      ]_vars

\* The event has a target path, so the lookup was made; it gave no id, and
\* the first POST of the payload is about to be sent.
C18_Witness ==
    \E p \in Procs :
        /\ pc[p] = "loop" /\ posts[p] = 0 /\ retry_times >= 0
        /\ payload[p].targetPath = ItemPath
        /\ payload[p].transferHistoryId = NoneV

\* C19: when test_connection has sent its probe, it returns success = true
\* exactly when the probe was answered with HTTP 200, whatever the body.
C19_ProbeSuccessIff200 ==
    probe \in Outcomes =>
        (test_result.success <=> probe \in {"200", "200_badjson"})

\* C20: in the payload built by _process_transfer_push, fileCount is the
\* length of fileList, and fileList is the transfer result's file_list_new
\* with every element turned into its string, in the same order; when the
\* attribute is missing, None or an empty list, fileList is empty.
C20_FileListAndCount ==
    \A p \in Procs :
        pc[p] = "loop" =>
            LET fl == ev[p].transferinfo.file_list_new
                out == payload[p].fileList
            IN  /\ payload[p].fileCount = Len(out)
                /\ IF fl.attr = "list"
                   THEN /\ Len(out) = Len(fl.items)
                        /\ \A i \in 1..Len(fl.items) : out[i] = Str(fl.items[i])
                   ELSE out = <<>>

\* A payload was built from a transfer whose new files are b.mkv, a.mkv.
C20_Witness ==
    \E p \in Procs :
        /\ pc[p] = "loop"
        /\ ev[p].transferinfo.file_list_new.items = <<PathB, PathA>>
        /\ payload[p].fileList = <<"/lib/b.mkv", "/lib/a.mkv">>
        /\ payload[p].fileCount = 2


\* C21: the payload's targetPath is the file target's path when it is set,
\* otherwise the directory target's path when it is set, otherwise the empty
\* string; the transfer-history lookup is made for the path of the same
\* preference (and not at all when neither is set), and the recent-push record
\* carries that path.
C21_Preferred(ti) ==
    IF ti.target_item = "path" THEN ItemPath
    ELSE IF ti.target_diritem = "path" THEN DirPath
    ELSE ""
C21_PathPreference ==
    [][\A p \in Procs :
        LET want == C21_Preferred(ev[p].transferinfo)
        IN  /\ \A l \in Lookups :
                   process_transfer_push(p, l) /\ pc'[p] = "loop" =>
                       /\ payload'[p].targetPath = want
                       /\ target_path'[p] = want
                       /\ payload'[p].transferHistoryId =
                              IF \/ l = "found" /\ want # ""
                                 \/ l = "item_only" /\ want = ItemPath
                                 \/ l = "dir_only" /\ want = DirPath
                              THEN HistoryId ELSE NoneV
            /\ (save_recent_success(p) \/ save_recent_failure(p)) /\ pc'[p] = "done" =>
                   recent_pushes'[Len(recent_pushes')].target_path = want]_vars
\* Both targets have a path, only the file target has a transfer history, and
\* the record of the event carries the file target's path.
C21_Witness ==
    \E p \in Procs :
        /\ pc[p] = "done"
        /\ ev[p].transferinfo = BothTransfer
        /\ payload[p].targetPath = ItemPath
        /\ payload[p].transferHistoryId = HistoryId
        /\ recent_pushes # <<>>
        /\ recent_pushes[Len(recent_pushes)].target_path = ItemPath


\* C22: the payload's title is mediainfo.title when mediainfo is present,
\* otherwise meta.name when meta is present, otherwise the empty string; its
\* year is the text of mediainfo.year when mediainfo is present and has a
\* year, otherwise the text of meta.year when meta is present, otherwise the
\* empty string. With mediainfo absent and a meta of name "Show X" and year
\* 2024 the title is "Show X" and the year is "2024".
C22_TitleAndYear ==
    \A p \in Procs :
        pc[p] = "loop" =>
            LET mi == ev[p].mediainfo
                meta == ev[p].meta
                py == payload[p]
            IN  /\ mi.obj => py.title = mi.title
                /\ ~mi.obj /\ meta.obj => py.title = meta.name
                /\ ~mi.obj /\ ~meta.obj => py.title = "" /\ py.year = ""
                /\ mi.obj /\ mi.year = "2023" => py.year = "2023"
                /\ ~(mi.obj /\ mi.year # NoneV) /\ meta.obj /\ meta.year = "int:2024" =>
                       py.year = "2024"
                /\ mi = NoMedia /\ meta = OkMeta =>
                       py.title = "Show X" /\ py.year = "2024"
\* A payload was built from the meta alone.
C22_Witness ==
    \E p \in Procs :
        /\ pc[p] = "loop"
        /\ ev[p].meta = OkMeta
        /\ ev[p].mediainfo = NoMedia
        /\ payload[p].title = "Show X"
        /\ payload[p].year = "2024"


\* C23: building the payload is safe for absent and None sources: for an event
\* with a transfer result whose mediainfo and meta are absent or hold None in
\* single attributes, building the payload raises nothing, so the event
\* reaches _push_to_api, and no field of the payload is the text "None".
C23_NullableSafe ==
    \A p \in Procs :
        /\ pc[p] \notin {"idle", "process"}
        /\ ev[p].mediainfo \in {NoMedia, OkMedia, NoYearMedia, NullMedia}
        /\ ev[p].meta \in {NoMeta, OkMeta, TypeNoneMeta, NoYearMeta}
        => /\ pc[p] = "loop"
           /\ payload[p].title # "None"
           /\ payload[p].year # "None"
           /\ payload[p].type # "None"


\* C24: with two handlers running at once, each reading the whole stats record
\* and writing it back with no lock, the persisted record satisfies
\* total = success + failed in every state of every interleaving, and so does
\* every copy a handler holds between its read and its write.
C24_ConcurrentTotalIsSum ==
    /\ stats # NoStats => stats.total = stats.success + stats.failed
    /\ \A p \in Procs :
           pc[p] = "stats_write" =>
               stats_local[p].total = stats_local[p].success + stats_local[p].failed
\* Both handlers read the record before either wrote it, one counted a success
\* and the other a failure, and both have written.
C24_Witness ==
    /\ \A p \in Procs : pc[p] = "done" /\ UpdateCalls(p) = 1
    /\ stats0["h1"] = stats0["h2"]
    /\ updates["h1"].success = 1
    /\ updates["h2"].failed = 1
    /\ Now.total = Before("h1").total + 1


\* C25: no stats update is lost when events are handled at once: when two
\* handlers that started from the same persisted record have both finished,
\* total has grown by the number of their _update_stats calls, success by the
\* number of their successful deliveries and failed by the number of their
\* failed ones.
C25_NoLostUpdate ==
    /\ \A p \in Procs : pc[p] = "done"
    /\ stats0["h1"] = stats0["h2"]
    => /\ Now.total = Before("h1").total + UpdateCalls("h1") + UpdateCalls("h2")
       /\ Now.success = Before("h1").success + updates["h1"].success + updates["h2"].success
       /\ Now.failed = Before("h1").failed + updates["h1"].failed + updates["h2"].failed


\* C26: for every retry_times that init_plugin can store, zero and negative
\* values included, a call of _push_to_api has sent at least one POST when it
\* records the outcome of the delivery.
C26_AtLeastOnePost ==
    \A p \in Procs :
        ret[p] = "save_ok" /\ upd_kind[p] \in {"success", "failed"} => posts[p] >= 1


\* C27: every call of _push_to_api terminates: the call returns with an
\* outcome recorded, it never sends more than retry_times + 1 POSTs, and
\* every failed attempt advances the retry counter by one.
C27_PushTerminates ==
    /\ pc["h1"] = "loop" ~> (pc["h1"] = "save_ok" /\ UpdateCalls("h1") = 1)
    /\ [][/\ posts'["h1"] <= retry_times + 1
          /\ \A o \in Outcomes :
                 push_attempt("h1", o) /\ ~IsSuccess(o) =>
                     retry_count'["h1"] = retry_count["h1"] + 1]_vars
\* _push_to_api has returned after every one of its retry_times + 1 attempts
\* failed, with a pause after each but the last.
C27_Witness ==
    /\ pc["h1"] = "save_ok"
    /\ retry_times = MaxRetryTimes
    /\ posts["h1"] = MaxRetryTimes + 1
    /\ sleeps["h1"] = MaxRetryTimes
    /\ updates["h1"].failed = 1
    /\ recent_pushes = <<>>


\* C28: init_plugin, test_connection and handle_plugin_action leave the stats
\* and the recent-push log as they are; test_connection never raises; and
\* while api_url or api_token is unset test_connection returns a failure
\* result without sending a request.
C28_OnlyDeliveriesTouchTheStore ==
    [][(\/ \E c \in Configs : init_plugin(c)
        \/ \E o \in Outcomes : test_connection(o)
        \/ \E a \in PluginActions, o \in Outcomes : handle_plugin_action(a, o))
       => /\ stats' = stats
          /\ recent_pushes' = recent_pushes
          /\ test_result' # Raised
          /\ (test_result' # test_result \/ probe' # probe) /\ ~Configured =>
                 /\ test_result' = Unconfigured
                 /\ probes' = probes]_vars
\* With stats on record, the plugin action has run a probe that timed out and
\* has posted the failure.
C28_Witness ==
    /\ stats # NoStats
    /\ posted = "failed"
    /\ probe = "timeout"
    /\ test_result = TestResult("timeout")
    /\ probes = 1


\* C29: the success field of the recent-push record appended for an event is
\* the outcome of its delivery: TRUE exactly when the delivery ended with HTTP
\* 200, FALSE when it failed after every retry or an exception occurred; so a
\* record with success = TRUE comes with a success counter raised by one.
C29_RecordShowsOutcome ==
    \A p \in Procs :
        pc[p] = "done" /\ recent_pushes # recent0[p] =>
            LET rec == recent_pushes[Len(recent_pushes)]
            IN  /\ rec.success <=> response[p] \in {"200", "200_badjson"}
                /\ rec.success => Now.success = Before(p).success + 1


\* C30: an event that reaches _process_transfer_push gets exactly one
\* recent-push record, whether its delivery succeeds, fails, or building its
\* payload raises; the record is appended once the stats update of the event
\* is written; an event skipped by the gate gets none.
C30_OneRecordPerPush ==
    \A p \in Procs :
        LET g == Gate(enabled, api_url, api_token, only_success, ev[p])
            n == Len(recent0[p])
        IN  /\ pc[p] \notin {"idle", "done"} => recent_pushes = recent0[p]
            /\ pc[p] \in {"save_ok", "save_failed"} =>
                   UpdateCalls(p) = 1 /\ Now.total = Before(p).total + 1
            /\ pc[p] = "done" /\ g = "push" =>
                   /\ Len(recent_pushes) = n + 1
                   /\ SubSeq(recent_pushes, 1, n) = recent0[p]
                   /\ recent_pushes[n + 1].target_path = target_path[p]
                   /\ UpdateCalls(p) = 1
            /\ pc[p] = "done" /\ g = "skip" => recent_pushes = recent0[p]
\* The second event of a run raised while its payload was built: it was counted
\* as failed and then got the second record of the log.
C30_Witness ==
    \E p \in Procs :
        /\ pc[p] = "done"
        /\ ret[p] = "save_failed"
        /\ Len(recent0[p]) = 1
        /\ Len(recent_pushes) = 2
        /\ ~recent_pushes[2].success
        /\ Now.failed = Before(p).failed + 1


\* C31: the persisted counters never decrease: with handlers running at once
\* and updating the stats with no lock, every write of the stats record leaves
\* total, success and failed at least as large as in the record persisted
\* before the write.
C31_CountersNeverDecrease ==
    [][/\ ReadStats(stats').total >= ReadStats(stats).total
       /\ ReadStats(stats').success >= ReadStats(stats).success
       /\ ReadStats(stats').failed >= ReadStats(stats).failed]_vars

====
